---- MODULE Spec2Model ----
(***************************************************************************)
(* lconfig: a template-driven config library (src/lconfig.h, and the       *)
(* int/string-only variant src/unnamed/part_000, which is the same code    *)
(* without the double table and without lconfigInit).                      *)
(*                                                                         *)
(* Text is a sequence of one-character strings.  A double is a record      *)
(* [nan, v]: the model's doubles are the integer-valued doubles and NaN.   *)
(* A string value is the char buffer the code keeps (LEN+1 cells, NUL      *)
(* terminated); what a caller sees of it is CStr(buffer).                  *)
(*                                                                         *)
(* The templates modelled declare each default within the limits declared  *)
(* with it, as the header describes; one of them declares an ID twice,     *)
(* which the table initializers compile all the same.  The numbers in the  *)
(* texts modelled are too short to overflow an int.                        *)
(***************************************************************************)
EXTENDS Integers, Sequences, FiniteSets, TLC

VARIABLES tpl,    \* which LCONFIG_TEMPLATE this build defines
          ints,   \* lcfg_ints[]
          dbls,   \* lcfg_dbls[]
          strs,   \* lcfg_strs[]
          file,   \* the file at LCONFIG_PATH: [exists, text]
          last    \* the call that ran last and what it returned

vars == <<tpl, ints, dbls, strs, file, last>>
store == <<ints, dbls, strs>>

----------------------------------------------------------------------------
(* C strings and <ctype.h>, <string.h>, <stdlib.h>, <stdio.h>              *)

NUL == ""
NL == "\n"
NULLNAME == <<>>

Digits == {"0", "1", "2", "3", "4", "5", "6", "7", "8", "9"}
Spaces == {" ", "\t", "\n", "\r"}

DigitVal(c) ==
    CASE c = "0" -> 0 [] c = "1" -> 1 [] c = "2" -> 2 [] c = "3" -> 3
      [] c = "4" -> 4 [] c = "5" -> 5 [] c = "6" -> 6 [] c = "7" -> 7
      [] c = "8" -> 8 [] c = "9" -> 9

DigitChar(d) == <<"0", "1", "2", "3", "4", "5", "6", "7", "8", "9">>[d + 1]

Min(a, b) == IF a < b THEN a ELSE b

Drop(s, n) == SubSeq(s, n + 1, Len(s))
Take(s, n) == SubSeq(s, 1, Min(n, Len(s)))

\* strcspn(s, reject): the length of the initial part of s holding no char of reject
RECURSIVE strcspn(_, _)
strcspn(s, reject) ==
    IF s = <<>> \/ s[1] \in reject THEN 0 ELSE 1 + strcspn(Tail(s), reject)

\* the C string a NUL-terminated buffer holds
CStr(buf) == Take(buf, strcspn(buf, {NUL}))

\* strncmp(name, txt, strlen(name)) == 0
StartsWith(txt, name) ==
    /\ Len(txt) >= Len(name)
    /\ SubSeq(txt, 1, Len(name)) = name

RECURSIVE SkipSpaces(_)
SkipSpaces(s) ==
    IF s # <<>> /\ s[1] \in Spaces THEN SkipSpaces(Tail(s)) ELSE s

\* the value of the leading decimal digits of s, continuing from acc
RECURSIVE DigitsValue(_, _)
DigitsValue(s, acc) ==
    IF s # <<>> /\ s[1] \in Digits
    THEN DigitsValue(Tail(s), 10 * acc + DigitVal(s[1]))
    ELSE acc

\* atoi: white space, an optional sign, decimal digits; 0 when there are none
atoi(s) ==
    LET t == SkipSpaces(s) IN
    IF t # <<>> /\ t[1] = "-" THEN 0 - DigitsValue(Tail(t), 0)
    ELSE IF t # <<>> /\ t[1] = "+" THEN DigitsValue(Tail(t), 0)
    ELSE DigitsValue(t, 0)

Dbl(v) == [nan |-> FALSE, v |-> v]
NaN == [nan |-> TRUE, v |-> 0]

\* the comparisons of IEEE doubles: every comparison with a NaN is false
DblLess(a, b) == ~a.nan /\ ~b.nan /\ a.v < b.v
DblGreater(a, b) == ~a.nan /\ ~b.nan /\ a.v > b.v

LowerCase(c) == IF c = "N" THEN "n" ELSE IF c = "A" THEN "a" ELSE c

\* atof (strtod), for the texts modelled: white space, an optional sign,
\* then "nan" in any case or decimal digits; 0.0 when there is no number
atof(s) ==
    LET t == SkipSpaces(s)
        signed == t # <<>> /\ t[1] \in {"-", "+"}
        u == IF signed THEN Tail(t) ELSE t
        word == [i \in 1..Min(3, Len(u)) |-> LowerCase(u[i])]
    IN  IF word = <<"n", "a", "n">> THEN NaN
        ELSE IF signed /\ t[1] = "-" THEN Dbl(0 - DigitsValue(u, 0))
        ELSE Dbl(DigitsValue(u, 0))

\* printf("%d")
RECURSIVE NatText(_)
NatText(n) ==
    IF n < 10 THEN <<DigitChar(n)>>
    ELSE NatText(n \div 10) \o <<DigitChar(n % 10)>>

IntText(n) == IF n < 0 THEN <<"-">> \o NatText(0 - n) ELSE NatText(n)

\* printf("%.17g") of an integer-valued double or a NaN
DblText(d) == IF d.nan THEN <<"n", "a", "n">> ELSE IntText(d.v)

----------------------------------------------------------------------------
(* The template: LCONFIG_LINE / LCONFIG_INT / LCONFIG_DBL / LCONFIG_STR    *)

LCONFIG_LINE(text) == [kind |-> "LINE", text |-> text]
LCONFIG_INT(id, name, min, max, def) ==
    [kind |-> "INT", id |-> id, name |-> name, min |-> min, max |-> max, def |-> def]
LCONFIG_DBL(id, name, min, max, def) ==
    [kind |-> "DBL", id |-> id, name |-> name,
     min |-> Dbl(min), max |-> Dbl(max), def |-> Dbl(def)]
LCONFIG_STR(id, name, len, def) ==
    [kind |-> "STR", id |-> id, name |-> name, len |-> len, def |-> def]

\* the line buffer of lconfigRead; the build option LCONFIG_LMAX, 512 unless
\* the build sets it: this build sets it small
LCONFIG_LMAX == 8

\* the entries of template t the initializer of one table expands
Entries(t, kind) == {k \in 1..Len(t) : t[k].kind = kind}

\* sizeof(table)/sizeof(table[0]) of {{0}, LCONFIG_TEMPLATE}: one element for
\* {0}, and one past the greatest designated index
TableSize(t, kind) ==
    LET ids == {t[k].id : k \in Entries(t, kind)} \cup {0}
    IN  1 + CHOOSE m \in ids : \A i \in ids : i <= m

\* the designated initializer that sets element id: the last one naming it
Designator(t, kind, id) ==
    LET ks == {k \in Entries(t, kind) : t[k].id = id}
    IN  IF ks = {} THEN 0 ELSE CHOOSE k \in ks : \A j \in ks : j <= k

\* (char[LEN+1]){DEF}
CharArray(len, def) ==
    [i \in 1..(len + 1) |-> IF i <= Len(def) THEN def[i] ELSE NUL]

\* static struct lcfg_int lcfg_ints[] = {{0}, LCONFIG_TEMPLATE};
lcfg_ints(t) ==
    [id \in 0..(TableSize(t, "INT") - 1) |->
        LET k == Designator(t, "INT", id) IN
        IF k = 0
        THEN [name |-> NULLNAME, min |-> 0, max |-> 0, def |-> 0, cur |-> 0]
        ELSE [name |-> t[k].name \o <<" ">>, min |-> t[k].min, max |-> t[k].max,
              def |-> t[k].def, cur |-> t[k].def]]

\* static struct lcfg_dbl lcfg_dbls[] = {{0}, LCONFIG_TEMPLATE};
lcfg_dbls(t) ==
    [id \in 0..(TableSize(t, "DBL") - 1) |->
        LET k == Designator(t, "DBL", id) IN
        IF k = 0
        THEN [name |-> NULLNAME, min |-> Dbl(0), max |-> Dbl(0),
              def |-> Dbl(0), cur |-> Dbl(0)]
        ELSE [name |-> t[k].name \o <<" ">>, min |-> t[k].min, max |-> t[k].max,
              def |-> t[k].def, cur |-> t[k].def]]

\* static struct lcfg_str lcfg_strs[] = {{0}, LCONFIG_TEMPLATE};
lcfg_strs(t) ==
    [id \in 0..(TableSize(t, "STR") - 1) |->
        LET k == Designator(t, "STR", id) IN
        IF k = 0
        THEN [name |-> NULLNAME, len |-> 0, def |-> <<>>, cur |-> <<>>]
        ELSE [name |-> t[k].name \o <<" ">>, len |-> t[k].len,
              def |-> t[k].def, cur |-> CharArray(t[k].len, t[k].def)]]

\* (id >= 0)&&(id < sizeof(table)/sizeof(table[0]))&&(table[id].name)
Valid(table, id) == id \in DOMAIN table /\ table[id].name # NULLNAME

----------------------------------------------------------------------------
(* Internal functions                                                      *)

\* lcfgIntSet without its first line: a value below min is stored as it is
lcfgIntSet_NoMin(cfg, val) ==
    [cfg EXCEPT !.cur = IF val > cfg.max THEN cfg.max ELSE val]

lcfgIntSet(cfg, val) ==
    LET v1 == IF val < cfg.min THEN cfg.min ELSE val
        v2 == IF v1 > cfg.max THEN cfg.max ELSE v1
    IN  [cfg EXCEPT !.cur = v2]

\* lcfgDblSet without its second line: a value above max is stored as it is
lcfgDblSet_NoMax(cfg, val) ==
    [cfg EXCEPT !.cur = IF DblLess(val, cfg.min) THEN cfg.min ELSE val]

lcfgDblSet(cfg, val) ==
    LET v1 == IF DblLess(val, cfg.min) THEN cfg.min ELSE val
        v2 == IF DblGreater(v1, cfg.max) THEN cfg.max ELSE v1
    IN  [cfg EXCEPT !.cur = v2]

\* lcfgStrSet without cfg->cur[len] = 0
lcfgStrSet_NoTerminator(cfg, val) ==
    LET n == strcspn(val, {NL})
        len == IF n > cfg.len THEN cfg.len ELSE n
    IN  [cfg EXCEPT !.cur =
            [i \in 1..Len(cfg.cur) |-> IF i <= len THEN val[i] ELSE cfg.cur[i]]]

lcfgStrSet(cfg, val) ==
    LET n == strcspn(val, {NL})
        len == IF n > cfg.len THEN cfg.len ELSE n
    IN  [cfg EXCEPT !.cur =
            [i \in 1..Len(cfg.cur) |->
                IF i <= len THEN val[i]
                ELSE IF i = len + 1 THEN NUL
                ELSE cfg.cur[i]]]

\* lcfgIntRead without the strncmp test
lcfgIntRead_NoMatch(cfg, txt) ==
    lcfgIntSet(cfg, atoi(Drop(txt, Len(cfg.name))))

lcfgIntRead(cfg, txt) ==
    IF StartsWith(txt, cfg.name)
    THEN lcfgIntSet(cfg, atoi(Drop(txt, Len(cfg.name))))
    ELSE cfg

lcfgDblRead(cfg, txt) ==
    IF StartsWith(txt, cfg.name)
    THEN lcfgDblSet(cfg, atof(Drop(txt, Len(cfg.name))))
    ELSE cfg

lcfgStrRead(cfg, txt) ==
    IF StartsWith(txt, cfg.name)
    THEN lcfgStrSet(cfg, Drop(txt, Len(cfg.name)))
    ELSE cfg

lcfgIntPrint(cfg) == cfg.name \o IntText(cfg.cur) \o <<NL>>
lcfgDblPrint(cfg) == cfg.name \o DblText(cfg.cur) \o <<NL>>
lcfgStrPrint(cfg) == cfg.name \o CStr(cfg.cur) \o <<NL>>

----------------------------------------------------------------------------
(* Public functions, as functions of the tables st = [ints, dbls, strs]    *)

\* one fgets(txt, LCONFIG_LMAX, cfg): up to and with the next newline, but
\* LCONFIG_LMAX-1 characters at most
fgets(text) == Take(text, Min(strcspn(text, {NL}) + 1, LCONFIG_LMAX - 1))

\* what the loop while (fgets(...)) sees of a file, piece by piece
RECURSIVE ReadPieces(_)
ReadPieces(text) ==
    IF text = <<>> THEN <<>>
    ELSE <<fgets(text)>> \o ReadPieces(Drop(text, Len(fgets(text))))

\* the body of the while loop of lconfigRead, for one piece txt
ReadLine(st, txt) ==
    [ints |-> [i \in DOMAIN st.ints |->
                 IF st.ints[i].name # NULLNAME
                 THEN lcfgIntRead(st.ints[i], txt) ELSE st.ints[i]],
     dbls |-> [i \in DOMAIN st.dbls |->
                 IF st.dbls[i].name # NULLNAME
                 THEN lcfgDblRead(st.dbls[i], txt) ELSE st.dbls[i]],
     strs |-> [i \in DOMAIN st.strs |->
                 IF st.strs[i].name # NULLNAME
                 THEN lcfgStrRead(st.strs[i], txt) ELSE st.strs[i]]]

RECURSIVE ReadLines(_, _)
ReadLines(st, pieces) ==
    IF pieces = <<>> THEN st
    ELSE ReadLines(ReadLine(st, Head(pieces)), Tail(pieces))

\* the tables after lconfigRead, whose fopen gave a stream (opened) or NULL
lconfigReadTables(st, opened, text) ==
    IF opened THEN ReadLines(st, ReadPieces(text)) ELSE st

\* lconfigRead returning 0 on both paths
lconfigReadReturn_Zero(opened) == 0

lconfigReadReturn(opened) == IF opened THEN 0 ELSE 1

\* what one entry of the template expands to within lconfigWrite
WriteEntry(st, e) ==
    CASE e.kind = "LINE" -> e.text \o <<NL>>
      [] e.kind = "INT" -> lcfgIntPrint(st.ints[e.id])
      [] e.kind = "DBL" -> lcfgDblPrint(st.dbls[e.id])
      [] e.kind = "STR" -> lcfgStrPrint(st.strs[e.id])

RECURSIVE WriteText(_, _)
WriteText(st, t) ==
    IF t = <<>> THEN <<>> ELSE WriteEntry(st, Head(t)) \o WriteText(st, Tail(t))

\* the file after lconfigWrite, whose fopen gave a stream (opened) or NULL
lconfigWriteFile(st, t, opened, f) ==
    IF opened THEN [exists |-> TRUE, text |-> WriteText(st, t)] ELSE f

\* lconfigWrite returning 0 on both paths
lconfigWriteReturn_Zero(opened) == 0

lconfigWriteReturn(opened) == IF opened THEN 0 ELSE 1

\* lconfigDefault without the loop over lcfg_dbls
lconfigDefaultTables_NoDbls(st) ==
    [ints |-> [i \in DOMAIN st.ints |->
                 IF st.ints[i].name # NULLNAME
                 THEN lcfgIntSet(st.ints[i], st.ints[i].def) ELSE st.ints[i]],
     dbls |-> st.dbls,
     strs |-> [i \in DOMAIN st.strs |->
                 IF st.strs[i].name # NULLNAME
                 THEN lcfgStrSet(st.strs[i], st.strs[i].def) ELSE st.strs[i]]]

lconfigDefaultTables(st) ==
    [ints |-> [i \in DOMAIN st.ints |->
                 IF st.ints[i].name # NULLNAME
                 THEN lcfgIntSet(st.ints[i], st.ints[i].def) ELSE st.ints[i]],
     dbls |-> [i \in DOMAIN st.dbls |->
                 IF st.dbls[i].name # NULLNAME
                 THEN lcfgDblSet(st.dbls[i], st.dbls[i].def) ELSE st.dbls[i]],
     strs |-> [i \in DOMAIN st.strs |->
                 IF st.strs[i].name # NULLNAME
                 THEN lcfgStrSet(st.strs[i], st.strs[i].def) ELSE st.strs[i]]]

IntNotFound == 0 - 1

lconfigGetInt(table, id) ==
    IF Valid(table, id) THEN table[id].cur ELSE IntNotFound

lconfigGetDouble(table, id) ==
    IF Valid(table, id) THEN table[id].cur ELSE NaN

\* a pointer: NULL, or the C string it points to
lconfigGetString(table, id) ==
    IF Valid(table, id)
    THEN [null |-> FALSE, str |-> CStr(table[id].cur)]
    ELSE [null |-> TRUE, str |-> <<>>]

\* lconfigSetInt storing val in every element with a name, as the loop of
\* lconfigDefault does, not in table[id] alone
lconfigSetIntTable_All(table, id, val) ==
    IF Valid(table, id)
    THEN [i \in DOMAIN table |->
            IF table[i].name # NULLNAME THEN lcfgIntSet(table[i], val)
            ELSE table[i]]
    ELSE table

lconfigSetIntTable(table, id, val) ==
    IF Valid(table, id)
    THEN [table EXCEPT ![id] = lcfgIntSet(table[id], val)] ELSE table

lconfigSetDoubleTable(table, id, val) ==
    IF Valid(table, id)
    THEN [table EXCEPT ![id] = lcfgDblSet(table[id], val)] ELSE table

lconfigSetStringTable(table, id, val) ==
    IF Valid(table, id)
    THEN [table EXCEPT ![id] = lcfgStrSet(table[id], val)] ELSE table

----------------------------------------------------------------------------
(* Builds, inputs and the environment                                      *)

\* labels between the fields, an int that can hold -1 and a string; the two
\* share the ID 0
TplExample ==
    << LCONFIG_LINE(<<"#", "e">>),
       LCONFIG_INT(0, <<"a">>, 0 - 2, 2, 0),
       LCONFIG_LINE(<<>>),
       LCONFIG_STR(0, <<"s">>, 2, <<"x">>) >>

\* a double and an int that cannot hold -1, with unused IDs below them
TplReal ==
    << LCONFIG_DBL(1, <<"d">>, 0 - 1, 1, 0),
       LCONFIG_INT(2, <<"b">>, 1, 2, 1) >>

\* one name is the beginning of another
TplPrefix ==
    << LCONFIG_INT(0, <<"v">>, 0, 2, 1),
       LCONFIG_INT(1, <<"v", " ", "m">>, 0, 2, 2) >>

\* two ints declared with the same ID: [0] = {"p ", ...}, [0] = {"q ", ...}
TplDuplicate ==
    << LCONFIG_INT(0, <<"p">>, 0, 1, 0),
       LCONFIG_INT(0, <<"q">>, 0, 1, 1) >>

Builds == {"example", "real", "prefix", "duplicate"}

\* #define LCONFIG_TEMPLATE of build b
Template(b) ==
    CASE b = "example" -> TplExample
      [] b = "real" -> TplReal
      [] b = "prefix" -> TplPrefix
      [] b = "duplicate" -> TplDuplicate

LCONFIG_TEMPLATE == Template(tpl)

MaxId == 2
MaxInput == 3
MaxLines == 2

IdInputs == (0 - 1)..MaxId
IntInputs == {0 - MaxInput, 0 - 1, 0, 1, MaxInput}
DblInputs == {Dbl(0 - MaxInput), Dbl(0), Dbl(MaxInput), NaN}
StrInputs ==
    { <<>>, <<"h", "i">>, <<"a", "b", "c">>, <<"y", NL, "z">> }

\* lines somebody may put into the file of a build with an editor: values
\* in range, out of range and malformed, a comment, a last line without its
\* newline, and a line longer than the line buffer
EditLines(b) ==
    CASE b = "example" ->
           { <<"a", " ", "1", NL>>,
             <<"a", " ", "9", NL>>,
             <<"a", " ", "x", NL>>,
             <<"a", " ", "-", "1">>,
             <<"s", " ", "a", "b", "c", NL>>,
             <<"#", "#", "#", "#", "#", "#", "#", "a", " ", "2", NL>> }
      [] b = "real" ->
           { <<"d", " ", "n", "a", "n", NL>>,
             <<"d", " ", "-", "7", NL>>,
             <<"d", " ", "1", NL>>,
             <<"b", " ", "2", NL>>,
             <<"b", " ", " ", "+", "9">> }
      [] b = "prefix" ->
           { <<"v", " ", "2", NL>>,
             <<"v", " ", "m", " ", "1", NL>>,
             <<"v", "m", " ", "1", NL>> }
      [] b = "duplicate" ->
           { <<"p", " ", "1", NL>>,
             <<"q", " ", "0", NL>> }

NoFile == [exists |-> FALSE, text |-> <<>>]

\* fopen(LCONFIG_PATH, "r"): NULL when there is no file, and whenever the
\* system refuses
FopenRead(f) == IF f.exists THEN BOOLEAN ELSE {FALSE}

\* fopen(LCONFIG_PATH, "w"): NULL whenever the system refuses
FopenWrite == BOOLEAN

Tables == [ints |-> ints, dbls |-> dbls, strs |-> strs]

Init ==
    /\ tpl \in Builds
    /\ ints = lcfg_ints(LCONFIG_TEMPLATE)
    /\ dbls = lcfg_dbls(LCONFIG_TEMPLATE)
    /\ strs = lcfg_strs(LCONFIG_TEMPLATE)
    /\ file = NoFile
    /\ last = [op |-> "start"]

----------------------------------------------------------------------------
(* The calls a program makes                                               *)

lconfigDefault ==
    LET st == lconfigDefaultTables(Tables) IN
    /\ ints' = st.ints
    /\ dbls' = st.dbls
    /\ strs' = st.strs
    /\ last' = [op |-> "Default"]
    /\ UNCHANGED <<tpl, file>>

lconfigRead ==
    \E opened \in FopenRead(file) :
        LET st == lconfigReadTables(Tables, opened, file.text) IN
        /\ ints' = st.ints
        /\ dbls' = st.dbls
        /\ strs' = st.strs
        /\ last' = [op |-> "Read", opened |-> opened,
                    ret |-> lconfigReadReturn(opened)]
        /\ UNCHANGED <<tpl, file>>

lconfigWrite ==
    \E opened \in FopenWrite :
        /\ file' = lconfigWriteFile(Tables, LCONFIG_TEMPLATE, opened, file)
        /\ last' = [op |-> "Write", opened |-> opened,
                    ret |-> lconfigWriteReturn(opened)]
        /\ UNCHANGED <<tpl, ints, dbls, strs>>

\* lconfigRead(); lconfigWrite();
lconfigInit ==
    \E ropened \in FopenRead(file), wopened \in FopenWrite :
        LET st == lconfigReadTables(Tables, ropened, file.text) IN
        /\ ints' = st.ints
        /\ dbls' = st.dbls
        /\ strs' = st.strs
        /\ file' = lconfigWriteFile(st, LCONFIG_TEMPLATE, wopened, file)
        /\ last' = [op |-> "Init", ropened |-> ropened, wopened |-> wopened]
        /\ UNCHANGED tpl

lconfigSetInt ==
    \E id \in IdInputs, val \in IntInputs :
        /\ ints' = lconfigSetIntTable(ints, id, val)
        /\ last' = [op |-> "SetInt"]
        /\ UNCHANGED <<tpl, dbls, strs, file>>

lconfigSetDouble ==
    \E id \in IdInputs, val \in DblInputs :
        /\ dbls' = lconfigSetDoubleTable(dbls, id, val)
        /\ last' = [op |-> "SetDouble"]
        /\ UNCHANGED <<tpl, ints, strs, file>>

lconfigSetString ==
    \E id \in IdInputs, val \in StrInputs :
        /\ strs' = lconfigSetStringTable(strs, id, val)
        /\ last' = [op |-> "SetString"]
        /\ UNCHANGED <<tpl, ints, dbls, file>>

\* the environment: an editor adds a line to the file, creating it if needed
EditFile ==
    \E line \in EditLines(tpl) :
        /\ Len(ReadPieces(file.text)) < MaxLines
        /\ IF file.text = <<>> THEN TRUE ELSE file.text[Len(file.text)] = NL
        /\ file' = [exists |-> TRUE, text |-> file.text \o line]
        /\ last' = [op |-> "Edit"]
        /\ UNCHANGED <<tpl, ints, dbls, strs>>

\* the environment: the file is removed
RemoveFile ==
    /\ file.exists
    /\ file' = NoFile
    /\ last' = [op |-> "Remove"]
    /\ UNCHANGED <<tpl, ints, dbls, strs>>

Next ==
    \/ lconfigInit
    \/ lconfigDefault
    \/ lconfigRead
    \/ lconfigWrite
    \/ lconfigSetInt
    \/ lconfigSetDouble
    \/ lconfigSetString
    \/ EditFile
    \/ RemoveFile

Spec == Init /\ [][Next]_vars

----------------------------------------------------------------------------
(* The accessors alone, each call kept in last with its arguments and what *)
(* it returned                                                             *)

SetInt ==
    \E id \in IdInputs, val \in IntInputs :
        /\ ints' = lconfigSetIntTable(ints, id, val)
        /\ last' = [op |-> "SetInt", id |-> id, val |-> val]
        /\ UNCHANGED <<tpl, dbls, strs, file>>

SetDouble ==
    \E id \in IdInputs, val \in DblInputs :
        /\ dbls' = lconfigSetDoubleTable(dbls, id, val)
        /\ last' = [op |-> "SetDouble", id |-> id, val |-> val]
        /\ UNCHANGED <<tpl, ints, strs, file>>

SetString ==
    \E id \in IdInputs, val \in StrInputs :
        /\ strs' = lconfigSetStringTable(strs, id, val)
        /\ last' = [op |-> "SetString", id |-> id, val |-> val]
        /\ UNCHANGED <<tpl, ints, dbls, file>>

GetInt ==
    \E id \in IdInputs :
        /\ last' = [op |-> "GetInt", id |-> id, ret |-> lconfigGetInt(ints, id)]
        /\ UNCHANGED <<tpl, ints, dbls, strs, file>>

GetDouble ==
    \E id \in IdInputs :
        /\ last' = [op |-> "GetDouble", id |-> id,
                    ret |-> lconfigGetDouble(dbls, id)]
        /\ UNCHANGED <<tpl, ints, dbls, strs, file>>

GetString ==
    \E id \in IdInputs :
        /\ last' = [op |-> "GetString", id |-> id,
                    ret |-> lconfigGetString(strs, id)]
        /\ UNCHANGED <<tpl, ints, dbls, strs, file>>

NextCalls ==
    \/ SetInt
    \/ SetDouble
    \/ SetString
    \/ GetInt
    \/ GetDouble
    \/ GetString
    \/ lconfigDefault

SpecCalls == Init /\ [][NextCalls]_vars

----------------------------------------------------------------------------
(* Properties                                                              *)

Registered(t) == {id \in DOMAIN t : t[id].name # NULLNAME}

\* what the three getters return for every registered field of tables st
Values(st) ==
    [ints |-> [id \in Registered(st.ints) |-> lconfigGetInt(st.ints, id)],
     dbls |-> [id \in Registered(st.dbls) |-> lconfigGetDouble(st.dbls, id)],
     strs |-> [id \in Registered(st.strs) |-> lconfigGetString(st.strs, id)]]

DblWithin(d, lo, hi) == ~d.nan /\ lo.v <= d.v /\ d.v <= hi.v

\* C1: in every reachable state every registered numeric field's current
\* value lies within its declared [min, max] and every registered string
\* field's current value is at most max_length long.
C1_WithinBounds ==
    /\ \A id \in Registered(ints) :
          ints[id].min <= ints[id].cur /\ ints[id].cur <= ints[id].max
    /\ \A id \in Registered(dbls) :
          DblWithin(dbls[id].cur, dbls[id].min, dbls[id].max)
    /\ \A id \in Registered(strs) :
          Len(CStr(strs[id].cur)) <= strs[id].len

\* C2: a successful Write followed at once by a successful Read of the file
\* it wrote leaves every registered field's value as it was before the Write.
C2_RoundTrip ==
    [][(/\ last.op = "Write" /\ last.ret = 0
        /\ last'.op = "Read" /\ last'.ret = 0)
       => Values(Tables') = Values(Tables)]_vars

\* C3: Read reports failure exactly when the file could not be opened, and
\* then no field changes; a file that opens makes Read report success,
\* whatever it holds.
C3_ReadFailure ==
    [][last'.op = "Read"
       => /\ (last'.ret # 0) <=> ~last'.opened
          /\ last'.ret # 0 => store' = store]_vars

\* a piece of the file begins with the name of a registered field
SomeFieldLine(st, text) ==
    \E k \in 1..Len(ReadPieces(text)) :
        \/ \E id \in Registered(st.ints) :
              StartsWith(ReadPieces(text)[k], st.ints[id].name)
        \/ \E id \in Registered(st.dbls) :
              StartsWith(ReadPieces(text)[k], st.dbls[id].name)
        \/ \E id \in Registered(st.strs) :
              StartsWith(ReadPieces(text)[k], st.strs[id].name)

\* a Read failed although the file exists, holds a line of a field, and the
\* store is not the one this file would give
C3_Witness ==
    /\ last.op = "Read" /\ last.ret = 1
    /\ file.exists /\ SomeFieldLine(Tables, file.text)
    /\ Values(lconfigReadTables(Tables, TRUE, file.text)) # Values(Tables)

\* the newline-terminated lines of a text
RECURSIVE TerminatedLines(_)
TerminatedLines(text) ==
    LET n == strcspn(text, {NL}) IN
    IF n = Len(text) THEN {}
    ELSE {Take(text, n + 1)} \cup TerminatedLines(Drop(text, n + 1))

\* the pieces of a text, as lconfigRead takes them, that begin with name
PiecesOf(text, name) ==
    {k \in 1..Len(ReadPieces(text)) : StartsWith(ReadPieces(text)[k], name)}

\* C4 as stated: Read changes a field only if the file holds a
\* newline-terminated line that begins with the field's stored name.
C4_ChangedOnlyByTerminatedLine ==
    [][last'.op = "Read"
       => /\ \A id \in Registered(ints) : ints'[id] # ints[id] =>
                \E l \in TerminatedLines(file.text) : StartsWith(l, ints[id].name)
          /\ \A id \in Registered(dbls) : dbls'[id] # dbls[id] =>
                \E l \in TerminatedLines(file.text) : StartsWith(l, dbls[id].name)
          /\ \A id \in Registered(strs) : strs'[id] # strs[id] =>
                \E l \in TerminatedLines(file.text) : StartsWith(l, strs[id].name)
      ]_vars

\* C4, amended: Read changes a field only if one of the pieces it takes from
\* the file (a newline-terminated line, the last line even without a
\* newline, or LCONFIG_LMAX-1 characters of a longer line) begins with the
\* field's stored name; every other field keeps its value, and unregistered
\* table elements are never touched.
C4_ChangedOnlyByPiece ==
    [][last'.op = "Read"
       => /\ \A id \in DOMAIN ints : ints'[id] # ints[id] =>
                id \in Registered(ints) /\ PiecesOf(file.text, ints[id].name) # {}
          /\ \A id \in DOMAIN dbls : dbls'[id] # dbls[id] =>
                id \in Registered(dbls) /\ PiecesOf(file.text, dbls[id].name) # {}
          /\ \A id \in DOMAIN strs : strs'[id] # strs[id] =>
                id \in Registered(strs) /\ PiecesOf(file.text, strs[id].name) # {}
      ]_vars

\* the file is one line of the int a, without a newline; Read has taken it,
\* and the string, which has no line, keeps the value it was set to
C4_Witness ==
    /\ tpl = "example"
    /\ last.op = "Read" /\ last.ret = 0
    /\ file.text = <<"a", " ", "-", "1">>
    /\ lconfigGetInt(ints, 0) = 0 - 1
    /\ lconfigGetString(strs, 0).str = <<"h", "i">>

\* C5 as stated: what Get returns for an ID that is not registered differs
\* from what it returns for every registered field of the category.
C5_NotFoundDistinct ==
    \A id \in IdInputs :
        /\ ~Valid(ints, id) => \A r \in Registered(ints) :
              lconfigGetInt(ints, r) # lconfigGetInt(ints, id)
        /\ ~Valid(dbls, id) => \A r \in Registered(dbls) :
              lconfigGetDouble(dbls, r) # lconfigGetDouble(dbls, id)
        /\ ~Valid(strs, id) => \A r \in Registered(strs) :
              lconfigGetString(strs, r) # lconfigGetString(strs, id)

\* C5, amended: for an ID that is not registered GetString returns NULL,
\* which it returns for no registered field; GetInt returns -1, which differs
\* from the value of every registered int field whose range excludes -1;
\* GetDouble returns NaN.
C5_NotFoundSignals ==
    \A id \in IdInputs :
        /\ ~Valid(strs, id) =>
              /\ lconfigGetString(strs, id).null
              /\ \A r \in Registered(strs) : ~lconfigGetString(strs, r).null
        /\ ~Valid(ints, id) =>
              /\ lconfigGetInt(ints, id) = 0 - 1
              /\ \A r \in Registered(ints) :
                    (ints[r].min > 0 - 1 \/ ints[r].max < 0 - 1)
                    => lconfigGetInt(ints, r) # lconfigGetInt(ints, id)
        /\ ~Valid(dbls, id) => lconfigGetDouble(dbls, id) = NaN

\* GetInt has returned -1 for the unused ID between two table elements, in a
\* build whose int field cannot hold -1
C5_Witness ==
    /\ last.op = "GetInt" /\ last.id = 1 /\ last.ret = 0 - 1
    /\ last.id \in DOMAIN ints /\ ~Valid(ints, last.id)
    /\ \E r \in Registered(ints) : ints[r].min > 0 - 1

AtDefaults ==
    /\ \A id \in Registered(ints) : lconfigGetInt(ints, id) = ints[id].def
    /\ \A id \in Registered(dbls) : lconfigGetDouble(dbls, id) = dbls[id].def
    /\ \A id \in Registered(strs) : lconfigGetString(strs, id).str = strs[id].def

C7_SaturatingClamp ==
    /\ (last.op = "SetInt" /\ Valid(ints, last.id)) =>
          lconfigGetInt(ints, last.id) =
             IF last.val < ints[last.id].min THEN ints[last.id].min
             ELSE IF last.val > ints[last.id].max THEN ints[last.id].max
             ELSE last.val
    /\ (last.op = "SetDouble" /\ Valid(dbls, last.id)) =>
          lconfigGetDouble(dbls, last.id) =
             IF DblLess(last.val, dbls[last.id].min) THEN dbls[last.id].min
             ELSE IF DblGreater(last.val, dbls[last.id].max) THEN dbls[last.id].max
             ELSE last.val

\* SetInt was given a value above max and the field holds max
C7_Witness ==
    /\ last.op = "SetInt" /\ Valid(ints, last.id)
    /\ last.val > ints[last.id].max
    /\ lconfigGetInt(ints, last.id) = ints[last.id].max

\* the part of s before its first newline
RECURSIVE UpToNewline(_)
UpToNewline(s) ==
    IF s = <<>> \/ s[1] = NL THEN <<>> ELSE <<s[1]>> \o UpToNewline(Tail(s))

\* C8: after Set(id, s) on a registered string field Get returns the part of
\* s before its first newline, cut to max_length characters, and nothing of
\* the value stored before.
C8_StringSet ==
    (last.op = "SetString" /\ Valid(strs, last.id)) =>
        lconfigGetString(strs, last.id) =
            [null |-> FALSE,
             str |-> Take(UpToNewline(last.val), strs[last.id].len)]

\* SetString was given the empty string over a longer value: the buffer
\* still holds a character of the old value behind the terminator
C8_Witness ==
    /\ last.op = "SetString" /\ Valid(strs, last.id)
    /\ last.val = <<>>
    /\ strs[last.id].cur[2] # NUL
    /\ lconfigGetString(strs, last.id).str = <<>>

\* C9: Write never changes a field, and reports failure exactly when the
\* file could not be opened for writing.
C9_WriteFrame ==
    [][last'.op = "Write"
       => /\ store' = store
          /\ (last'.ret # 0) <=> ~last'.opened]_vars

\* a Write failed on a store that is not at its defaults
C9_Witness ==
    /\ last.op = "Write" /\ last.ret = 1
    /\ ~AtDefaults

Clamp(v, lo, hi) == IF v < lo THEN lo ELSE IF v > hi THEN hi ELSE v

\* what follows the name in the last piece of pieces that begins with name
LastValueText(pieces, name) ==
    LET ks == {k \in 1..Len(pieces) : StartsWith(pieces[k], name)}
        k == CHOOSE k \in ks : \A j \in ks : j <= k
    IN  Drop(pieces[k], Len(name))

HasLine(pieces, name) == \E k \in 1..Len(pieces) : StartsWith(pieces[k], name)

\* C10: Init on a store at its defaults leaves each field with the value of
\* its line in the file, clamped (text that is no number counts as 0), or
\* with its default if the file has no line for it or could not be read; and
\* if the file could be opened for writing it then holds the canonical form
\* of that store.
C10_InitNormalizes ==
    [][(last'.op = "Init" /\ AtDefaults)
       => LET src == IF last'.ropened THEN ReadPieces(file.text) ELSE <<>> IN
          /\ \A id \in Registered(ints) :
                lconfigGetInt(ints', id) =
                   IF HasLine(src, ints[id].name)
                   THEN Clamp(atoi(LastValueText(src, ints[id].name)),
                              ints[id].min, ints[id].max)
                   ELSE ints[id].def
          /\ \A id \in Registered(dbls) :
                lconfigGetDouble(dbls', id) =
                   IF HasLine(src, dbls[id].name)
                   THEN Dbl(Clamp(atoi(LastValueText(src, dbls[id].name)),
                                  dbls[id].min.v, dbls[id].max.v))
                   ELSE dbls[id].def
          /\ \A id \in Registered(strs) :
                lconfigGetString(strs', id).str =
                   IF HasLine(src, strs[id].name)
                   THEN Take(UpToNewline(LastValueText(src, strs[id].name)),
                             strs[id].len)
                   ELSE strs[id].def
          /\ last'.wopened =>
                file' = [exists |-> TRUE,
                         text |-> WriteText(Tables', LCONFIG_TEMPLATE)]
      ]_vars

----------------------------------------------------------------------------
\* C11: a Set(id, v) of one category changes at most the field with that ID
\* in the table of that category: nothing at all when the ID is not
\* registered there, no other element of that table, and no element of the
\* two other tables, the one with the same ID included.
C11_SetFrame ==
    [][ /\ last'.op = "SetInt" =>
            /\ dbls' = dbls /\ strs' = strs
            /\ \A i \in DOMAIN ints : i # last'.id => ints'[i] = ints[i]
            /\ DOMAIN ints' = DOMAIN ints
            /\ ~Valid(ints, last'.id) => ints' = ints
        /\ last'.op = "SetDouble" =>
            /\ ints' = ints /\ strs' = strs
            /\ \A i \in DOMAIN dbls : i # last'.id => dbls'[i] = dbls[i]
            /\ DOMAIN dbls' = DOMAIN dbls
            /\ ~Valid(dbls, last'.id) => dbls' = dbls
        /\ last'.op = "SetString" =>
            /\ ints' = ints /\ dbls' = dbls
            /\ \A i \in DOMAIN strs : i # last'.id => strs'[i] = strs[i]
            /\ DOMAIN strs' = DOMAIN strs
            /\ ~Valid(strs, last'.id) => strs' = strs ]_vars

\* a SetInt has just changed one of two registered ints, the other still at
\* a different value
C11_Witness ==
    /\ last.op = "SetInt"
    /\ Valid(ints, last.id)
    /\ ints[last.id].cur = last.val
    /\ ints[last.id].cur # ints[last.id].def
    /\ \E i \in Registered(ints) : i # last.id /\ ints[i].cur # last.val

----------------------------------------------------------------------------
\* the IDs template t declares more than once within one type
DuplicateIds(t, kind) ==
    {t[k].id : k \in {j \in Entries(t, kind) :
                        \E i \in Entries(t, kind) : i # j /\ t[i].id = t[j].id}}

\* C12: a template that declares an ID twice within one type is rejected: no
\* program runs with a table in which that ID is a registered field, one of
\* the two declarations having replaced the other.
C12_DuplicateRejected ==
    /\ \A id \in DuplicateIds(LCONFIG_TEMPLATE, "INT") : ~Valid(ints, id)
    /\ \A id \in DuplicateIds(LCONFIG_TEMPLATE, "DBL") : ~Valid(dbls, id)
    /\ \A id \in DuplicateIds(LCONFIG_TEMPLATE, "STR") : ~Valid(strs, id)

----------------------------------------------------------------------------
\* the fields, as <<type, ID>>, whose current value differs between the
\* tables st and the tables nx
ChangedFields(st, nx) ==
    {<<"INT", i>> : i \in {j \in DOMAIN st.ints : nx.ints[j] # st.ints[j]}}
    \cup {<<"DBL", i>> : i \in {j \in DOMAIN st.dbls : nx.dbls[j] # st.dbls[j]}}
    \cup {<<"STR", i>> : i \in {j \in DOMAIN st.strs : nx.strs[j] # st.strs[j]}}

\* C13: during Read one line updates at most one field, over all three
\* tables and for every template the build accepts: a Read of a file that
\* holds a single line changes the current value of at most one field.
C13_OneLineOneField ==
    [][ (/\ last'.op = "Read"
         /\ last'.opened
         /\ Len(ReadPieces(file.text)) = 1)
        => Cardinality(ChangedFields(Tables,
                [ints |-> ints', dbls |-> dbls', strs |-> strs'])) <= 1 ]_vars

====
